---- MODULE Spec2Model ----
(***************************************************************************)
(* Model of quran-khotmer (src/src/App.tsx, useTheme.ts, QuranReader.tsx). *)
(*   Spec           buildDailyPlan applied to bounded well-formed arguments*)
(*   SpecFormat     formatWrappedRange applied to bounded ranges           *)
(*   SpecApp        the App component: typed inputs, switches, the theme   *)
(*                  and the plan it derives on every render                *)
(*   SpecChecklist  the App component: checklists, progress, the record    *)
(*                  kept in localStorage, reset and reload                 *)
(*   SpecReader     the QuranReader component: mode, ref, the load effect  *)
(*                  and its requests                                       *)
(***************************************************************************)
EXTENDS Integers, Sequences, FiniteSets

VARIABLES args, plan, pc, fmt, app, doneDays, doneSlots, stored, theme, reader

vars ==
  <<args, plan, pc, fmt, app, doneDays, doneSlots, stored, theme, reader>>

\* ---------------------------------------------------------------- bounds
MaxTotal == 12
MaxDays == 4
MaxPrayers == 5
MaxPos == 12
MaxCycle == 5
MaxStoredDays == 2
MaxStoredPrayers == 2
MaxNavRef == 2

\* ------------------------------------------------------------ data model
\* JavaScript null in a `number | null` field. Every number the code stores
\* in such a field is a 1-based position, so -1 is outside their range.
Null == -1

Modes == {"per-day", "per-prayer"}

UnitLabels == {"halaman", "ayat"}

Min(a, b) == IF a < b THEN a ELSE b

Max(a, b) == IF a > b THEN a ELSE b

\* Array.prototype.slice(from, to) on a 1-based TLA+ sequence, with 0-based
\* from/to clamped to the array length as JavaScript does.
Slice(arr, from, to) ==
  LET lo == Min(from, Len(arr))
      hi == Min(to, Len(arr))
  IN  IF hi <= lo THEN <<>> ELSE [k \in 1..(hi - lo) |-> arr[lo + k]]

\* ------------------------------------------------------------ buildDailyPlan
ceilDivOffByOne(a, b) == (a + b) \div b

ceilDivFloor(a, b) == a \div b

ceilDiv(a, b) == (a + b - 1) \div b

TotalSlotsIgnoreMode(days, mode, prayersPerDay) == days * prayersPerDay

TotalSlots(days, mode, prayersPerDay) ==
  IF mode = "per-prayer" THEN days * prayersPerDay ELSE days

BaseFloorOnly(total, totalSlots, allowUneven) == total \div totalSlots

Base(total, totalSlots, allowUneven) ==
  IF allowUneven THEN total \div totalSlots ELSE ceilDiv(total, totalSlots)

Remainder(total, totalSlots, base, allowUneven) ==
  IF allowUneven THEN total - base * totalSlots
                 ELSE Max(0, base * totalSlots - total)

\* slotSizes[i] for the 0-based loop index i
SlotSizeNoRemainder(i, base, remainder, allowUneven) == base

SlotSizeInclusive(i, base, remainder, allowUneven) ==
  IF allowUneven THEN base + (IF i <= remainder THEN 1 ELSE 0) ELSE base

SlotSizeAlwaysUneven(i, base, remainder, allowUneven) ==
  base + (IF i < remainder THEN 1 ELSE 0)

SlotSize(i, base, remainder, allowUneven) ==
  IF allowUneven THEN base + (IF i < remainder THEN 1 ELSE 0) ELSE base

SlotSizes(totalSlots, base, remainder, allowUneven) ==
  [k \in 1..totalSlots |-> SlotSize(k - 1, base, remainder, allowUneven)]

ExhaustedEarly(cursor, total) == cursor >= total

Exhausted(cursor, total) == cursor > total

SlotEndNoClamp(total, cursor, size) == cursor + size - 1

SlotEnd(total, cursor, size) == Min(total, cursor + size - 1)

\* the "Convert to ranges" loop, from iteration i with the given cursor
RECURSIVE ConvertToRanges(_, _, _, _, _, _)
ConvertToRanges(total, totalSlots, slotSizes, i, cursor, slots) ==
  IF ~(i < totalSlots) THEN slots
  ELSE IF Exhausted(cursor, total)
  THEN ConvertToRanges(total, totalSlots, slotSizes, i + 1, cursor,
         Append(slots, [idx |-> i + 1, start |-> Null, end |-> Null, size |-> 0]))
  ELSE LET size == slotSizes[i + 1]
           start == cursor
           end == SlotEnd(total, cursor, size)
       IN  ConvertToRanges(total, totalSlots, slotSizes, i + 1, end + 1,
             Append(slots, [idx |-> i + 1, start |-> start, end |-> end,
                            size |-> end - start + 1]))

\* the start of the last slot with bounds instead of the first
FirstStartFromEnd(daySlots) ==
  LET hits == {k \in 1..Len(daySlots) : daySlots[k].start # Null}
  IN  IF hits = {} THEN Null
      ELSE daySlots[CHOOSE k \in hits : \A j \in hits : k >= j].start

\* daySlots.find((x) => x.start != null)?.start ?? null
FirstStart(daySlots) ==
  LET hits == {k \in 1..Len(daySlots) : daySlots[k].start # Null}
  IN  IF hits = {} THEN Null
      ELSE daySlots[CHOOSE k \in hits : \A j \in hits : k <= j].start

\* the scan for the end without the reverse()
LastEndNoReverse(daySlots) ==
  LET hits == {k \in 1..Len(daySlots) : daySlots[k].end # Null}
  IN  IF hits = {} THEN Null
      ELSE daySlots[CHOOSE k \in hits : \A j \in hits : k <= j].end

\* [...daySlots].reverse().find((x) => x.end != null)?.end ?? null
LastEnd(daySlots) ==
  LET hits == {k \in 1..Len(daySlots) : daySlots[k].end # Null}
  IN  IF hits = {} THEN Null
      ELSE daySlots[CHOOSE k \in hits : \A j \in hits : k >= j].end

\* a reduce that adds the width end - start of each slot
RECURSIVE SumWidth(_)
SumWidth(daySlots) ==
  IF daySlots = <<>> THEN 0
  ELSE SumWidth(SubSeq(daySlots, 1, Len(daySlots) - 1))
       + (IF daySlots[Len(daySlots)].start = Null THEN 0
          ELSE daySlots[Len(daySlots)].end - daySlots[Len(daySlots)].start)

\* daySlots.reduce((a, b) => a + (b.size || 0), 0)
RECURSIVE SumSize(_)
SumSize(daySlots) ==
  IF daySlots = <<>> THEN 0
  ELSE SumSize(SubSeq(daySlots, 1, Len(daySlots) - 1))
       + daySlots[Len(daySlots)].size

\* body of the per-day loop for the 0-based day index d
PerDayEntryNextSlot(slots, d) ==
  IF d + 2 <= Len(slots)
  THEN LET s == slots[d + 2]
       IN  [day |-> d + 1, slots |-> <<s>>, start |-> s.start, end |-> s.end,
            totalThisDay |-> s.size]
  ELSE [day |-> d + 1, slots |-> <<>>, start |-> Null, end |-> Null,
        totalThisDay |-> 0]

PerDayEntry(slots, d) ==
  IF d + 1 <= Len(slots)
  THEN LET s == slots[d + 1]
       IN  [day |-> d + 1, slots |-> <<s>>, start |-> s.start, end |-> s.end,
            totalThisDay |-> s.size]
  ELSE [day |-> d + 1, slots |-> <<>>, start |-> Null, end |-> Null,
        totalThisDay |-> 0]

StartIdxNextDay(d, prayersPerDay) == (d + 1) * prayersPerDay

StartIdx(d, prayersPerDay) == d * prayersPerDay

\* body of the per-prayer loop for the 0-based day index d
PerPrayerEntry(slots, d, prayersPerDay) ==
  LET startIdx == StartIdx(d, prayersPerDay)
      daySlots == Slice(slots, startIdx, startIdx + prayersPerDay)
  IN  [day |-> d + 1, slots |-> daySlots, start |-> FirstStart(daySlots),
       end |-> LastEnd(daySlots), totalThisDay |-> SumSize(daySlots)]

DayEntry(slots, d, mode, prayersPerDay) ==
  IF mode = "per-day" THEN PerDayEntry(slots, d)
                      ELSE PerPrayerEntry(slots, d, prayersPerDay)

\* a grouping that drops the days for which no material is left
RECURSIVE GroupIntoDaysSkipEmpty(_, _, _, _)
GroupIntoDaysSkipEmpty(slots, days, mode, prayersPerDay) ==
  IF days = 0 THEN <<>>
  ELSE LET rest == GroupIntoDaysSkipEmpty(slots, days - 1, mode, prayersPerDay)
           e == DayEntry(slots, days - 1, mode, prayersPerDay)
       IN  IF e.start = Null THEN rest ELSE Append(rest, e)

\* the "Group into days" loops: one entry pushed for every d in 0..days-1
GroupIntoDays(slots, days, mode, prayersPerDay) ==
  [k \in 1..days |-> DayEntry(slots, k - 1, mode, prayersPerDay)]

PerSlotLabel(mode, unitLabel) ==
  IF mode = "per-prayer" THEN <<"/", unitLabel, " per sholat">>
                         ELSE <<"/", unitLabel, " per hari">>

buildDailyPlan(a) ==
  LET totalSlots == TotalSlots(a.days, a.mode, a.prayersPerDay)
      base == Base(a.total, totalSlots, a.allowUneven)
      remainder == Remainder(a.total, totalSlots, base, a.allowUneven)
      slotSizes == SlotSizes(totalSlots, base, remainder, a.allowUneven)
      slots == ConvertToRanges(a.total, totalSlots, slotSizes, 0, 1, <<>>)
      daysArr == GroupIntoDays(slots, a.days, a.mode, a.prayersPerDay)
  IN  [daysArr |-> daysArr, slots |-> slots, base |-> base,
       remainder |-> remainder, totalSlots |-> totalSlots,
       perSlotLabel |-> PerSlotLabel(a.mode, a.unitLabel)]

\* ------------------------------------------------------------ formatWrappedRange
\* A string is modelled as the sequence of its characters. The en dash
\* (U+2013) of the template literals is the one character EnDash, distinct
\* from the minus sign "-".
EnDash == "u2013"

DigitChars == <<"0", "1", "2", "3", "4", "5", "6", "7", "8", "9">>

RECURSIVE DecDigits(_)
DecDigits(n) ==
  IF n < 10 THEN <<DigitChars[n + 1]>>
  ELSE DecDigits(n \div 10) \o <<DigitChars[(n % 10) + 1]>>

\* `${n}` for an integer n
NumberToString(n) == IF n < 0 THEN <<"-">> \o DecDigits(0 - n) ELSE DecDigits(n)

\* Math.floor(a / b) for b # 0
FloorDiv(a, b) == IF b > 0 THEN a \div b ELSE (0 - a) \div (0 - b)

\* a % b of JavaScript for b # 0: the result has the sign of a
JsRem(a, b) ==
  LET m == IF b < 0 THEN 0 - b ELSE b
      r == (IF a < 0 THEN 0 - a ELSE a) % m
  IN  IF a < 0 THEN 0 - r ELSE r

DegenerateZeroOnly(cycleSize) == cycleSize = 0

Degenerate(cycleSize) == cycleSize <= 0

CycleOfNoShift(n, cycleSize) == FloorDiv(n, cycleSize) + 1

\* kStart, kEnd
CycleOf(n, cycleSize) == FloorDiv(n - 1, cycleSize) + 1

PosOfNoShift(n, cycleSize) == JsRem(n, cycleSize)

\* s, e
PosOf(n, cycleSize) == JsRem(n - 1, cycleSize) + 1

FormatPlain(start, end) ==
  NumberToString(start) \o <<EnDash>> \o NumberToString(end)

FormatSame(k, s, e) ==
  <<"K">> \o NumberToString(k) \o <<" ">> \o NumberToString(s)
    \o <<EnDash>> \o NumberToString(e)

FormatCross(kStart, s, cycleSize, kEnd, e) ==
  <<"K">> \o NumberToString(kStart) \o <<" ">> \o NumberToString(s)
    \o <<EnDash>> \o NumberToString(cycleSize) \o <<" ", "+", " ", "K">>
    \o NumberToString(kEnd) \o <<" ", "1", EnDash>> \o NumberToString(e)

formatWrappedRange(start, end, cycleSize) ==
  IF Degenerate(cycleSize) THEN FormatPlain(start, end)
  ELSE LET kStart == CycleOf(start, cycleSize)
           kEnd == CycleOf(end, cycleSize)
           s == PosOf(start, cycleSize)
           e == PosOf(end, cycleSize)
       IN  IF kStart = kEnd THEN FormatSame(kStart, s, e)
           ELSE FormatCross(kStart, s, cycleSize, kEnd, e)

\* ------------------------------------------------------------ App
DEFAULT_TOTAL_PAGES == 604

DEFAULT_PRAYERS_PER_DAY == 5

DefaultTotalAyat == 6236

DefaultDays == 29

DefaultKhatamTimes == 1

MaxTotalInput == 1000000

MaxDaysInput == 366

MaxKhatamInput == 1000

MaxPrayersInput == 10

\* The text of an input field: empty, a text Number() turns into NaN, or the
\* decimal text of an integer.
RawEmpty == [kind |-> "empty", val |-> 0]

RawText == [kind |-> "text", val |-> 0]

RawNum(n) == [kind |-> "num", val |-> n]

\* clampInt on an integer (Math.trunc leaves it as it is)
clampInt(n, min, max) == Max(min, Min(max, n))

parseIntOrDefault(raw, def, min, max) ==
  IF raw.kind = "empty" THEN def
  ELSE IF raw.kind = "text" THEN def
  ELSE clampInt(raw.val, min, max)

\* the values the component computes on every render
TotalPages(a) == parseIntOrDefault(a.totalPagesRaw, DEFAULT_TOTAL_PAGES, 1, MaxTotalInput)

TotalAyat(a) == parseIntOrDefault(a.totalAyatRaw, DefaultTotalAyat, 1, MaxTotalInput)

Days(a) == parseIntOrDefault(a.daysRaw, DefaultDays, 1, MaxDaysInput)

KhatamTimes(a) == parseIntOrDefault(a.khatamTimesRaw, DefaultKhatamTimes, 1, MaxKhatamInput)

PrayersPerDay(a) ==
  parseIntOrDefault(a.prayersPerDayRaw, DEFAULT_PRAYERS_PER_DAY, 1, MaxPrayersInput)

BaseTotal(a) == IF a.unit = "pages" THEN TotalPages(a) ELSE TotalAyat(a)

Total(a) == BaseTotal(a) * KhatamTimes(a)

UnitLabel(a) == IF a.unit = "pages" THEN "halaman" ELSE "ayat"

\* the arguments the plan memo hands to buildDailyPlan
PlanArgs(a) ==
  [total |-> clampInt(Total(a), 1, MaxTotalInput),
   days |-> clampInt(Days(a), 1, MaxDaysInput),
   mode |-> a.mode,
   prayersPerDay |-> clampInt(PrayersPerDay(a), 1, MaxPrayersInput),
   unitLabel |-> UnitLabel(a),
   allowUneven |-> a.allowUneven]

AppPlan(a) == buildDailyPlan(PlanArgs(a))

\* the state of a first visit: loadState() returns null
DefaultApp ==
  [unit |-> "pages",
   totalPagesRaw |-> RawNum(DEFAULT_TOTAL_PAGES),
   totalAyatRaw |-> RawNum(DefaultTotalAyat),
   daysRaw |-> RawNum(DefaultDays),
   khatamTimesRaw |-> RawNum(DefaultKhatamTimes),
   prayersPerDayRaw |-> RawNum(DEFAULT_PRAYERS_PER_DAY),
   mode |-> "per-prayer",
   allowUneven |-> TRUE]

\* a checklist object: a map from the keys it holds to booleans; a key that
\* is absent reads as undefined
EmptyMap == [k \in {} |-> TRUE]

\* a PersistedState record as loadState() returns it
DefaultStored ==
  [doneDays |-> EmptyMap, doneSlots |-> EmptyMap, unit |-> "pages", totalPages |-> DEFAULT_TOTAL_PAGES,
   totalAyat |-> DefaultTotalAyat, days |-> DefaultDays, mode |-> "per-prayer",
   prayersPerDay |-> DEFAULT_PRAYERS_PER_DAY, allowUneven |-> TRUE,
   khatamTimes |-> DefaultKhatamTimes]

\* the component state built from initial = loadState(): every raw field is
\* String(initial.field)
FromStored(st) ==
  [unit |-> st.unit,
   totalPagesRaw |-> RawNum(st.totalPages),
   totalAyatRaw |-> RawNum(st.totalAyat),
   daysRaw |-> RawNum(st.days),
   khatamTimesRaw |-> RawNum(st.khatamTimes),
   prayersPerDayRaw |-> RawNum(st.prayersPerDay),
   mode |-> st.mode,
   allowUneven |-> st.allowUneven]

\* ------------------------------------------------------------ checklist
\* `${day}:${idx}`
slotKey(day, idx) == NumberToString(day) \o <<":">> \o NumberToString(idx)

\* !!m[k]
Ticked(m, k) == k \in DOMAIN m /\ m[k]

\* an update that keeps only the written key
MapSetAlone(m, k, v) == [x \in {k} |-> v]

\* { ...m, [k]: v }
MapSet(m, k, v) == [x \in DOMAIN m \cup {k} |-> IF x = k THEN v ELSE m[x]]

\* setDoneDays((prev) => ({ ...prev, [day]: !prev[day] }))
toggleDay(prev, day) == MapSet(prev, day, ~Ticked(prev, day))

\* setDoneSlots((prev) => ({ ...prev, [k]: !prev[k] })) with k = slotKey(day, idx)
toggleSlot(prev, day, idx) ==
  MapSet(prev, slotKey(day, idx), ~Ticked(prev, slotKey(day, idx)))

\* plan.daysArr.find((x) => x.day === day)
FindDay(p, day) ==
  LET hits == {k \in 1..Len(p.daysArr) : p.daysArr[k].day = day}
  IN  CHOOSE k \in hits : \A j \in hits : k <= j

\* the for loop of setAllSlotsForDay, from idx up to count - 1
RECURSIVE SetSlotsFrom(_, _, _, _, _)
SetSlotsFrom(next, day, idx, count, value) ==
  IF ~(idx < count) THEN next
  ELSE SetSlotsFrom(MapSet(next, slotKey(day, idx), value), day, idx + 1,
                    count, value)

setAllSlotsForDay(prev, p, a, day, value) ==
  LET count == IF \E k \in 1..Len(p.daysArr) : p.daysArr[k].day = day
               THEN Len(p.daysArr[FindDay(p, day)].slots)
               ELSE PrayersPerDay(a)
  IN  SetSlotsFrom(prev, day, 0, count, value)

EverySlotTickedButLast(d, ds) ==
  \A idx \in 0..(Len(d.slots) - 2) : Ticked(ds, slotKey(d.day, idx))

\* d.slots.every((_, idx) => !!doneSlots[slotKey(d.day, idx)])
EverySlotTicked(d, ds) ==
  \A idx \in 0..(Len(d.slots) - 1) : Ticked(ds, slotKey(d.day, idx))

isDayAllSlotsDone(a, d, ds) ==
  IF a.mode # "per-prayer" THEN FALSE
  ELSE IF Len(d.slots) = 0 THEN FALSE
  ELSE EverySlotTicked(d, ds)

\* the checked value of the day checkbox
DayChecked(a, d, dd, ds) ==
  IF a.mode = "per-prayer" THEN isDayAllSlotsDone(a, d, ds) ELSE Ticked(dd, d.day)

RECURSIVE SumSlotCounts(_, _)
SumSlotCounts(daysArr, n) ==
  IF n = 0 THEN 0 ELSE SumSlotCounts(daysArr, n - 1) + Len(daysArr[n].slots)

TotalCount(a, p) ==
  IF a.mode = "per-prayer" THEN SumSlotCounts(p.daysArr, Len(p.daysArr))
  ELSE Len(p.daysArr)

\* d.slots.filter((_, idx) => !!doneSlots[slotKey(d.day, idx)]).length
DoneSlotsOfDay(d, ds) ==
  Cardinality({idx \in 0..(Len(d.slots) - 1) : Ticked(ds, slotKey(d.day, idx))})

RECURSIVE SumDoneSlots(_, _, _)
SumDoneSlots(daysArr, n, ds) ==
  IF n = 0 THEN 0
  ELSE SumDoneSlots(daysArr, n - 1, ds) + DoneSlotsOfDay(daysArr[n], ds)

\* a count of every ticked key the checklist holds, in the plan or not
DoneCountAllKeys(a, p, dd, ds) ==
  IF a.mode = "per-prayer" THEN Cardinality({k \in DOMAIN ds : ds[k]})
  ELSE Cardinality({k \in DOMAIN dd : dd[k]})

DoneCount(a, p, dd, ds) ==
  IF a.mode = "per-prayer" THEN SumDoneSlots(p.daysArr, Len(p.daysArr), ds)
  ELSE Cardinality({k \in 1..Len(p.daysArr) : Ticked(dd, p.daysArr[k].day)})

\* Math.round(x) = floor(x + 1/2) for the ratio x = 100 * n / d
RoundPercent(n, d) == (200 * n + d) \div (2 * d)

ProgressPct(a, p, dd, ds) ==
  RoundPercent(DoneCount(a, p, dd, ds), Max(1, TotalCount(a, p)))

\* a record that stores the text of the fields instead of the parsed values
SavedRecordRaw(a, dd, ds) ==
  [doneDays |-> dd, doneSlots |-> ds, unit |-> a.unit,
   totalPages |-> a.totalPagesRaw.val, totalAyat |-> a.totalAyatRaw.val,
   days |-> a.daysRaw.val, mode |-> a.mode,
   prayersPerDay |-> a.prayersPerDayRaw.val, allowUneven |-> a.allowUneven,
   khatamTimes |-> a.khatamTimesRaw.val]

\* the record the save effect writes under STORAGE_KEY
SavedRecord(a, dd, ds) ==
  [doneDays |-> dd, doneSlots |-> ds, unit |-> a.unit,
   totalPages |-> TotalPages(a), totalAyat |-> TotalAyat(a),
   days |-> Days(a), mode |-> a.mode, prayersPerDay |-> PrayersPerDay(a),
   allowUneven |-> a.allowUneven, khatamTimes |-> KhatamTimes(a)]

\* the record resetChecklist writes: prev = loadState() is the record the
\* save effect wrote last, so no field falls back to the current value
ResetRecord(prev, a) ==
  [doneDays |-> EmptyMap, doneSlots |-> EmptyMap, unit |-> prev.unit,
   totalPages |-> prev.totalPages, totalAyat |-> prev.totalAyat,
   days |-> prev.days, mode |-> prev.mode,
   prayersPerDay |-> prev.prayersPerDay, allowUneven |-> prev.allowUneven,
   khatamTimes |-> prev.khatamTimes]

\* ------------------------------------------------------------ useTheme
ThemeModes == {"light", "dark", "system"}

\* systemPref(): the colour scheme the media query reports
systemPref(osDark) == IF osDark THEN "dark" ELSE "light"

\* a resolution that follows the system whatever the mode
ResolvedFromSystem(mode, osDark) == systemPref(osDark)

\* resolved in apply()
Resolved(mode, osDark) == IF mode = "system" THEN systemPref(osDark) ELSE mode

\* apply(): the "dark" class of the document root afterwards
apply(mode, osDark) == Resolved(mode, osDark) = "dark"

\* the theme effect run for mode: the key written, the class applied, the
\* change listener installed in system mode only
ThemeEffect(mode, osDark) ==
  [mode |-> mode, saved |-> mode, osDark |-> osDark,
   rootDark |-> apply(mode, osDark), listening |-> mode = "system"]

\* a first visit: nothing under KEY, the system reports a light scheme
MountedTheme == ThemeEffect("system", FALSE)

\* ------------------------------------------------------------ QuranReader
ReadModes == {"surah", "juz", "page"}

\* a JavaScript number as a handler receives it: an integer, an integer plus
\* one half, NaN or Infinity
IntNum(n) == [kind |-> "int", val |-> n]

HalfNum(n) == [kind |-> "half", val |-> n]

NaN == [kind |-> "nan", val |-> 0]

Infinity == [kind |-> "inf", val |-> 0]

\* Math.trunc of a finite number: the half is dropped towards zero
Trunc(n) ==
  IF n.kind = "half" /\ n.val < 0 THEN n.val + 1 ELSE n.val

\* a clamp without the upper bound
clampNoMax(n, min, max) ==
  IF n.kind \in {"nan", "inf"} THEN min ELSE Max(min, Trunc(n))

clamp(n, min, max) ==
  IF n.kind \in {"nan", "inf"} THEN min ELSE Max(min, Min(max, Trunc(n)))

maxRef(m) == IF m = "page" THEN 604 ELSE IF m = "juz" THEN 30 ELSE 114

\* the request of one run of the load effect: the path is built from mode and
\* safeRef, the editions from showId and idEdition
Request(mode, safeRef, showId, idEdition) ==
  [mode |-> mode, ref |-> safeRef, showId |-> showId,
   idEdition |-> IF showId THEN idEdition ELSE ""]

\* the load effect run after a render in which mode, ref, showId or idEdition
\* changed; n is the ref of that render. The cleanup of the previous run
\* aborts its request, the ref is clamped and written back, and unless the
\* translation is wanted and no edition is known a request starts. A ref that
\* had to be corrected renders again, so the effect runs a second time: the
\* request just started is aborted and the same request starts anew.
RunLoadEffect(r, n) ==
  LET safeRef == clamp(n, 1, maxRef(r.mode))
      req == Request(r.mode, safeRef, r.showId, r.idEdition)
      cleaned == r.aborted \o r.latest
  IN  IF r.showId /\ r.idEdition = ""
      THEN [r EXCEPT !.ref = safeRef, !.latest = <<>>, !.aborted = cleaned]
      ELSE [r EXCEPT !.ref = safeRef, !.loading = TRUE, !.err = "",
                     !.latest = <<req>>,
                     !.aborted = IF IntNum(safeRef) = n THEN cleaned
                                 ELSE Append(cleaned, req)]

\* the records found under LASTREAD_KEY on mount: none, or the last page
LastReads == {<<>>, <<[mode |-> "page", ref |-> 604]>>}

\* the component after mount: mode and ref from loadLastRead(), the initial
\* data requested, the load effect run once (no edition is known yet)
MountedReader(last) ==
  RunLoadEffect(
    [mode |-> IF last = <<>> THEN "surah" ELSE last[1].mode,
     ref |-> 1, showId |-> TRUE, data |-> "pending", idEdition |-> "",
     ayahs |-> <<>>, lastRead |-> last, loading |-> FALSE, err |-> "",
     latest |-> <<>>, aborted |-> <<>>],
    IntNum(IF last = <<>> THEN 1 ELSE last[1].ref))

IdleReader == MountedReader(<<>>)

\* ------------------------------------------------------------ state machine
\* well-formed arguments: positive integers, either mode, either policy
ValidArgs ==
  [total : 1..MaxTotal, days : 1..MaxDays, mode : Modes,
   prayersPerDay : 1..MaxPrayers, unitLabel : UnitLabels,
   allowUneven : BOOLEAN]

NoPlan ==
  [daysArr |-> <<>>, slots |-> <<>>, base |-> 0, remainder |-> 0,
   totalSlots |-> 0, perSlotLabel |-> <<>>]

\* no formatter call in flight
NoFmt == [start |-> 1, end |-> 1, cycleSize |-> 0, out |-> <<>>]

Init ==
  /\ args \in ValidArgs
  /\ plan = NoPlan
  /\ pc = "call"
  /\ fmt = NoFmt
  /\ app = DefaultApp
  /\ doneDays = EmptyMap
  /\ doneSlots = EmptyMap
  /\ stored = DefaultStored
  /\ theme = MountedTheme
  /\ reader = IdleReader

Build ==
  /\ pc = "call"
  /\ plan' = buildDailyPlan(args)
  /\ pc' = "done"
  /\ UNCHANGED <<args, fmt, app, doneDays, doneSlots, stored, theme, reader>>

Next == Build

Spec == Init /\ [][Next]_vars

\* the formatter applied to one range: positions are 1-based units, the cycle
\* size is any integer, and the ranges of the examples are included
FmtPositions == 1..MaxPos \cup {602, 604, 605, 606}

FmtCycleSizes == (0 - MaxCycle)..MaxCycle \cup {604}

\* some plan in hand while a range is being rendered
IdleArgs ==
  [total |-> 1, days |-> 1, mode |-> "per-day", prayersPerDay |-> 1,
   unitLabel |-> "halaman", allowUneven |-> TRUE]

InitFormat ==
  /\ fmt \in [start : FmtPositions, end : FmtPositions,
              cycleSize : FmtCycleSizes, out : {<<>>}]
  /\ pc = "fcall"
  /\ args = IdleArgs
  /\ plan = buildDailyPlan(IdleArgs)
  /\ app = DefaultApp
  /\ doneDays = EmptyMap
  /\ doneSlots = EmptyMap
  /\ stored = DefaultStored
  /\ theme = MountedTheme
  /\ reader = IdleReader

Format ==
  /\ pc = "fcall"
  /\ fmt' = [fmt EXCEPT !.out = formatWrappedRange(fmt.start, fmt.end, fmt.cycleSize)]
  /\ pc' = "fdone"
  /\ UNCHANGED <<args, plan, app, doneDays, doneSlots, stored, theme, reader>>

NextFormat == Format

SpecFormat == InitFormat /\ [][NextFormat]_vars

\* the App component: what the user types into the fields and switches
TypedTotalPages == {RawEmpty, RawNum(3), RawNum(1000000)}

TypedTotalAyat == {RawText, RawNum(2)}

TypedDays == {RawNum(0), RawNum(1), RawNum(2)}

TypedKhatamTimes == {RawNum(3), RawNum(1001)}

TypedPrayersPerDay == {RawNum(0), RawNum(1), RawNum(2)}

\* the records found in storage on mount: the defaults with a short period
StoredStates ==
  {[DefaultStored EXCEPT !.days = d, !.prayersPerDay = q] :
     d \in 1..MaxStoredDays, q \in 1..MaxStoredPrayers}

\* the component after mount: state from loadState(), save effect run once
Mounted(st) ==
  /\ app = FromStored(st)
  /\ doneDays = st.doneDays
  /\ doneSlots = st.doneSlots
  /\ stored = SavedRecord(FromStored(st), st.doneDays, st.doneSlots)

InitApp ==
  /\ \E st \in StoredStates : Mounted(st)
  /\ pc = "app"
  /\ args = IdleArgs
  /\ plan = buildDailyPlan(IdleArgs)
  /\ fmt = NoFmt
  /\ theme = MountedTheme
  /\ reader = IdleReader

\* localStorage.setItem(STORAGE_KEY, value): the value replaces the old one
setItem(old, value) == value

\* a state update, the re-render and the save effect that follows it
Commit(a, dd, ds) ==
  /\ pc = "app"
  /\ app' = a
  /\ doneDays' = dd
  /\ doneSlots' = ds
  /\ stored' = setItem(stored, SavedRecord(a, dd, ds))
  /\ UNCHANGED <<args, plan, pc, fmt, theme, reader>>

AppStep(a) == Commit(a, doneDays, doneSlots)

SetUnit ==
  /\ pc = "app"
  /\ \E v \in {"pages", "ayat"} : AppStep([app EXCEPT !.unit = v])

SetTotalPagesRaw ==
  /\ app.unit = "pages"
  /\ \E raw \in TypedTotalPages : AppStep([app EXCEPT !.totalPagesRaw = raw])

BlurTotalPages ==
  /\ app.unit = "pages"
  /\ AppStep([app EXCEPT !.totalPagesRaw = RawNum(TotalPages(app))])

SetTotalAyatRaw ==
  /\ app.unit = "ayat"
  /\ \E raw \in TypedTotalAyat : AppStep([app EXCEPT !.totalAyatRaw = raw])

BlurTotalAyat ==
  /\ app.unit = "ayat"
  /\ AppStep([app EXCEPT !.totalAyatRaw = RawNum(TotalAyat(app))])

SetDaysRaw ==
  /\ pc = "app"
  /\ \E raw \in TypedDays : AppStep([app EXCEPT !.daysRaw = raw])

BlurDays ==
  /\ pc = "app"
  /\ AppStep([app EXCEPT !.daysRaw = RawNum(Days(app))])

SetKhatamTimesRaw ==
  /\ pc = "app"
  /\ \E raw \in TypedKhatamTimes :
       AppStep([app EXCEPT !.khatamTimesRaw = raw])

BlurKhatamTimes ==
  /\ pc = "app"
  /\ AppStep([app EXCEPT !.khatamTimesRaw = RawNum(KhatamTimes(app))])

SetMode ==
  /\ pc = "app"
  /\ \E v \in BOOLEAN :
       AppStep([app EXCEPT !.mode = IF v THEN "per-prayer" ELSE "per-day"])

SetPrayersPerDayRaw ==
  /\ app.mode = "per-prayer"
  /\ \E raw \in TypedPrayersPerDay :
       AppStep([app EXCEPT !.prayersPerDayRaw = raw])

BlurPrayersPerDay ==
  /\ app.mode = "per-prayer"
  /\ AppStep([app EXCEPT !.prayersPerDayRaw = RawNum(PrayersPerDay(app))])

SetAllowUneven ==
  /\ pc = "app"
  /\ \E v \in BOOLEAN : AppStep([app EXCEPT !.allowUneven = v])

\* setThemeMode(m) from the theme tabs: the cleanup of the previous effect
\* removes its listener, then the effect runs for m; React skips both when m
\* is the current mode
SetThemeMode ==
  /\ pc = "app"
  /\ \E m \in ThemeModes :
       /\ m # theme.mode
       /\ theme' = ThemeEffect(m, theme.osDark)
  /\ UNCHANGED <<args, plan, pc, fmt, app, doneDays, doneSlots, stored, reader>>

\* the OS colour scheme changes: an installed handler calls apply() of the
\* effect that installed it, whose mode is "system"
OsSchemeChange ==
  /\ pc = "app"
  /\ theme' = [theme EXCEPT
                 !.osDark = ~theme.osDark,
                 !.rootDark = IF theme.listening THEN apply("system", ~theme.osDark)
                              ELSE theme.rootDark]
  /\ UNCHANGED <<args, plan, pc, fmt, app, doneDays, doneSlots, stored, reader>>

NextApp ==
  \/ SetThemeMode
  \/ OsSchemeChange
  \/ SetUnit
  \/ SetTotalPagesRaw
  \/ BlurTotalPages
  \/ SetTotalAyatRaw
  \/ BlurTotalAyat
  \/ SetDaysRaw
  \/ BlurDays
  \/ SetKhatamTimesRaw
  \/ BlurKhatamTimes
  \/ SetMode
  \/ SetPrayersPerDayRaw
  \/ BlurPrayersPerDay
  \/ SetAllowUneven

SpecApp == InitApp /\ [][NextApp]_vars

\* the checklist card and the plan list of the App component
\* a record left by an earlier visit: a plan of two days of two slots
ChecklistStored == [DefaultStored EXCEPT !.days = 2, !.prayersPerDay = 2]

InitChecklist ==
  /\ Mounted(ChecklistStored)
  /\ pc = "app"
  /\ args = IdleArgs
  /\ plan = buildDailyPlan(IdleArgs)
  /\ fmt = NoFmt
  /\ theme = MountedTheme
  /\ reader = IdleReader

\* the days the plan list renders
RenderedDays == 1..Len(AppPlan(app).daysArr)

\* the day checkbox outside per-prayer mode
ToggleDayOf(k) ==
  /\ app.mode # "per-prayer"
  /\ Commit(app, toggleDay(doneDays, AppPlan(app).daysArr[k].day), doneSlots)

ToggleDay ==
  /\ pc = "app"
  /\ \E k \in RenderedDays : ToggleDayOf(k)

\* a slot checkbox; the slots are rendered in per-prayer mode only
ToggleSlotOf(k, idx) ==
  /\ app.mode = "per-prayer"
  /\ Commit(app, doneDays,
            toggleSlot(doneSlots, AppPlan(app).daysArr[k].day, idx))

ToggleSlot ==
  /\ pc = "app"
  /\ \E k \in RenderedDays :
       \E idx \in 0..(Len(AppPlan(app).daysArr[k].slots) - 1) :
         ToggleSlotOf(k, idx)

\* the day checkbox in per-prayer mode: setAllSlotsForDay(d.day, !dayChecked)
ClickDayAllSlotsOf(k) ==
  /\ app.mode = "per-prayer"
  /\ LET d == AppPlan(app).daysArr[k]
     IN  Commit(app, doneDays,
                setAllSlotsForDay(doneSlots, AppPlan(app), app, d.day,
                                  ~DayChecked(app, d, doneDays, doneSlots)))

ClickDayAllSlots ==
  /\ pc = "app"
  /\ \E k \in RenderedDays : ClickDayAllSlotsOf(k)

\* a reset that clears the day checklist only
ResetDaysOnly ==
  /\ pc = "app"
  /\ Commit(app, EmptyMap, doneSlots)

\* resetChecklist: both states cleared, the record written by the handler,
\* then the re-render and the save effect
ResetChecklist ==
  /\ pc = "app"
  /\ app' = app
  /\ doneDays' = EmptyMap
  /\ doneSlots' = EmptyMap
  /\ stored' = setItem(setItem(stored, ResetRecord(stored, app)),
                       SavedRecord(app, EmptyMap, EmptyMap))
  /\ UNCHANGED <<args, plan, pc, fmt, theme, reader>>

\* a page reload: the component mounts again from the stored record
Reload ==
  /\ pc = "app"
  /\ Commit(FromStored(stored), stored.doneDays, stored.doneSlots)

\* of the configuration handlers, those that decide which days and slots the
\* checklist renders; the others reach the record through the same Commit
NextChecklist ==
  \/ SetDaysRaw
  \/ BlurDays
  \/ SetMode
  \/ SetPrayersPerDayRaw
  \/ BlurPrayersPerDay
  \/ ToggleDay
  \/ ToggleSlot
  \/ ClickDayAllSlots
  \/ ResetChecklist
  \/ Reload

SpecChecklist == InitChecklist /\ [][NextChecklist]_vars

\* the QuranReader component
\* the translation editions the API lists
Editions == <<"id.a", "id.b">>

\* what the number field hands to setRef: Number(e.target.value)
TypedRefs == {NaN, Infinity, HalfNum(2), IntNum(0), IntNum(2), IntNum(605)}

\* the surahs picked from the select
SurahChoices == {1, 2, 114}

InitReader ==
  /\ \E last \in LastReads : reader = MountedReader(last)
  /\ pc = "reader"
  /\ args = IdleArgs
  /\ plan = buildDailyPlan(IdleArgs)
  /\ fmt = NoFmt
  /\ app = DefaultApp
  /\ doneDays = EmptyMap
  /\ doneSlots = EmptyMap
  /\ stored = DefaultStored
  /\ theme = MountedTheme

ReaderStep(r) ==
  /\ pc = "reader"
  /\ reader' = r
  /\ UNCHANGED <<args, plan, pc, fmt, app, doneDays, doneSlots, stored, theme>>

\* an event handler runs once the rejections of the aborted requests have
\* been delivered: those are microtasks, queued by the abort
Idle == pc = "reader" /\ reader.aborted = <<>>

\* the mode tabs
SetReaderMode ==
  /\ Idle
  /\ \E m \in ReadModes :
       /\ m # reader.mode
       /\ ReaderStep(RunLoadEffect([reader EXCEPT !.mode = m],
                                   IntNum(reader.ref)))

\* the surah select, disabled without the list and while loading
SelectSurah ==
  /\ Idle
  /\ reader.mode = "surah" /\ reader.data = "loaded" /\ ~reader.loading
  /\ \E n \in SurahChoices :
       /\ n # reader.ref
       /\ ReaderStep(RunLoadEffect(reader, IntNum(n)))

\* the Prev button: setRef((v) => clamp(v - 1, 1, maxRef(mode)))
PrevRef ==
  /\ Idle
  /\ reader.mode # "surah" /\ ~reader.loading
  /\ reader.ref <= MaxNavRef \/ reader.ref = maxRef(reader.mode)
  /\ LET v == clamp(IntNum(reader.ref - 1), 1, maxRef(reader.mode))
     IN  /\ v # reader.ref
         /\ ReaderStep(RunLoadEffect(reader, IntNum(v)))

\* the Next button: setRef((v) => clamp(v + 1, 1, maxRef(mode)))
NextRef ==
  /\ Idle
  /\ reader.mode # "surah" /\ ~reader.loading
  /\ reader.ref < MaxNavRef \/ reader.ref = maxRef(reader.mode) - 1
  /\ LET v == clamp(IntNum(reader.ref + 1), 1, maxRef(reader.mode))
     IN  /\ v # reader.ref
         /\ ReaderStep(RunLoadEffect(reader, IntNum(v)))

\* the number field: setRef(Number(e.target.value))
TypeRef ==
  /\ Idle
  /\ reader.mode # "surah"
  /\ \E n \in TypedRefs :
       /\ n # IntNum(reader.ref)
       /\ ReaderStep(RunLoadEffect(reader, n))

\* the translation switch
SetShowId ==
  /\ Idle
  /\ ReaderStep(RunLoadEffect([reader EXCEPT !.showId = ~reader.showId],
                              IntNum(reader.ref)))

\* the edition select, shown with the translation, disabled without the
\* list and while loading
SetIdEdition ==
  /\ Idle
  /\ reader.showId /\ reader.data = "loaded" /\ ~reader.loading
  /\ \E k \in 1..Len(Editions) :
       /\ Editions[k] # reader.idEdition
       /\ ReaderStep(RunLoadEffect([reader EXCEPT !.idEdition = Editions[k]],
                                   IntNum(reader.ref)))

\* a click on the number of a displayed ayah
MarkLastRead ==
  /\ Idle
  /\ reader.ayahs # <<>>
  /\ ReaderStep([reader EXCEPT
                   !.lastRead = <<[mode |-> reader.mode, ref |-> reader.ref]>>])

ContinueLastRead ==
  /\ Idle
  /\ reader.lastRead # <<>>
  /\ reader.lastRead[1].mode # reader.mode
       \/ reader.lastRead[1].ref # reader.ref
  /\ ReaderStep(RunLoadEffect([reader EXCEPT !.mode = reader.lastRead[1].mode],
                              IntNum(reader.lastRead[1].ref)))

\* the surah list and the editions arrive: setIdEdition(e[0].identifier)
InitialDataLoaded ==
  /\ Idle
  /\ reader.data = "pending"
  /\ ReaderStep(RunLoadEffect([reader EXCEPT !.data = "loaded",
                                             !.idEdition = Editions[1]],
                              IntNum(reader.ref)))

InitialDataFails ==
  /\ Idle
  /\ reader.data = "pending"
  /\ ReaderStep([reader EXCEPT !.data = "failed", !.err = "initial"])

\* the request of the latest run resolves: the try block completes
LoadSucceeds ==
  /\ Idle
  /\ reader.latest # <<>>
  /\ ReaderStep([reader EXCEPT !.ayahs = reader.latest, !.loading = FALSE,
                               !.latest = <<>>])

\* the request of the latest run fails (network, HTTP status, API status)
LoadFails ==
  /\ Idle
  /\ reader.latest # <<>>
  /\ ReaderStep([reader EXCEPT !.err = "failed", !.ayahs = <<>>,
                               !.loading = FALSE, !.latest = <<>>])

\* the rejection of an aborted request reaches its run of the effect: the
\* catch and finally blocks run
AbortSettles ==
  /\ pc = "reader"
  /\ reader.aborted # <<>>
  /\ ReaderStep([reader EXCEPT !.err = "aborted", !.ayahs = <<>>,
                               !.loading = FALSE,
                               !.aborted = Tail(reader.aborted)])

NextReader ==
  \/ SetReaderMode
  \/ SelectSurah
  \/ PrevRef
  \/ NextRef
  \/ TypeRef
  \/ SetShowId
  \/ SetIdEdition
  \/ MarkLastRead
  \/ ContinueLastRead
  \/ InitialDataLoaded
  \/ InitialDataFails
  \/ LoadSucceeds
  \/ LoadFails
  \/ AbortSettles

SpecReader == InitReader /\ [][NextReader]_vars

\* ------------------------------------------------------------ properties
Done == pc = "done"

IsNullSlot(s) == s.start = Null /\ s.end = Null

IsRangeSlot(s) == s.start # Null /\ s.end # Null

\* the units covered by the first n slots of the flat sequence
UnitsBefore(slots, n) ==
  UNION {slots[j].start .. slots[j].end : j \in {k \in 1..n : IsRangeSlot(slots[k])}}

RECURSIVE SumOfSizes(_, _)
SumOfSizes(slots, n) ==
  IF n = 0 THEN 0 ELSE SumOfSizes(slots, n - 1) + slots[n].size

\* C1: with allowUneven (distributeRemainder) true, the sizes of all slots
\* returned by buildDailyPlan sum to exactly total.
C1_Conservation ==
  (Done /\ args.allowUneven) =>
    SumOfSizes(plan.slots, Len(plan.slots)) = args.total

C1_Witness ==
  /\ Done /\ args.allowUneven /\ args.mode = "per-prayer"
  /\ plan.base >= 1 /\ plan.remainder >= 2
  /\ SumOfSizes(plan.slots, Len(plan.slots)) = args.total

\* C2: under both policies the first slot starts at 1, consecutive slots with
\* bounds satisfy slot[i+1].start = slot[i].end + 1, every slot with bounds has
\* 1 <= start <= end <= total and size = end - start + 1, and a null slot has
\* size 0.
C2_Contiguity ==
  Done =>
    LET slots == plan.slots
    IN  /\ Len(slots) >= 1
        /\ slots[1].start = 1
        /\ \A i \in 1..Len(slots) :
             \/ /\ IsRangeSlot(slots[i])
                /\ 1 <= slots[i].start
                /\ slots[i].start <= slots[i].end
                /\ slots[i].end <= args.total
                /\ slots[i].size = slots[i].end - slots[i].start + 1
             \/ /\ IsNullSlot(slots[i])
                /\ slots[i].size = 0
        /\ \A i \in 1..(Len(slots) - 1) :
             (IsRangeSlot(slots[i]) /\ IsRangeSlot(slots[i + 1]))
               => slots[i + 1].start = slots[i].end + 1

\* the clamp to total has cut a later slot short, under the ceiling policy
C2_Witness ==
  /\ Done /\ ~args.allowUneven
  /\ \E i \in 2..Len(plan.slots) :
       /\ IsRangeSlot(plan.slots[i])
       /\ plan.slots[i].size < plan.base
       /\ plan.slots[i].end = args.total
       /\ plan.slots[i].start = plan.slots[i - 1].end + 1

\* C3: a slot is null (start = end = null, size 0) exactly when the earlier
\* slots already cover all units 1..total; once a slot is null every later
\* slot is null; total = 5 over 10 slots leaves exactly slots 6..10 null.
C3_ExhaustionNullSuffix ==
  Done =>
    LET slots == plan.slots
    IN  /\ \A i \in 1..Len(slots) :
             /\ IsNullSlot(slots[i])
                  <=> UnitsBefore(slots, i - 1) = 1..args.total
             /\ IsNullSlot(slots[i]) \/ IsRangeSlot(slots[i])
             /\ IsNullSlot(slots[i]) => slots[i].size = 0
        /\ \A i \in 1..Len(slots) : \A j \in i..Len(slots) :
             IsNullSlot(slots[i]) => IsNullSlot(slots[j])
        /\ (args.total = 5 /\ plan.totalSlots = 10) =>
             /\ Len(slots) = 10
             /\ \A i \in 1..5 : IsRangeSlot(slots[i])
             /\ \A i \in 6..10 : IsNullSlot(slots[i])

C3_Witness ==
  /\ Done /\ args.total = 5 /\ plan.totalSlots = 10 /\ ~args.allowUneven
  /\ plan.base = 1
  /\ IsNullSlot(plan.slots[6]) /\ IsNullSlot(plan.slots[10])

\* C4: with allowUneven true the slot at 0-based index i has size base + 1
\* when i < remainder and base otherwise (a null slot counting 0), so sizes
\* are non-increasing in index order and any two differ by at most 1, also
\* when total < totalSlots.
C4_FrontLoading ==
  (Done /\ args.allowUneven) =>
    LET slots == plan.slots
        n == Len(slots)
    IN  /\ n = plan.totalSlots
        /\ \A i \in 0..(n - 1) :
             slots[i + 1].size =
               IF i < plan.remainder THEN plan.base + 1 ELSE plan.base
        /\ \A i \in 1..n : \A j \in i..n :
             /\ slots[i].size >= slots[j].size
             /\ slots[i].size - slots[j].size <= 1

\* total < totalSlots: base 0, the first total slots get one unit, the rest
\* are null
C4_Witness ==
  /\ Done /\ args.allowUneven
  /\ args.total < plan.totalSlots /\ plan.base = 0 /\ plan.remainder >= 2
  /\ plan.slots[plan.remainder].size = 1
  /\ IsNullSlot(plan.slots[plan.remainder + 1])

\* C5: with allowUneven false every slot with bounds other than the last one
\* has size exactly base = ceil(total / totalSlots), the last slot with bounds
\* has a size in 1..base (short exactly when total is not a multiple of base),
\* every slot after it is null; total = 10 over 3 slots gives 1-4, 5-8, 9-10
\* and no fourth slot.
C5_CeilingShape ==
  (Done /\ ~args.allowUneven) =>
    LET slots == plan.slots
        n == Len(slots)
        base == plan.base
    IN  /\ base * plan.totalSlots >= args.total
        /\ (base - 1) * plan.totalSlots < args.total
        /\ \E k \in 1..n :
             /\ \A i \in 1..(k - 1) :
                  IsRangeSlot(slots[i]) /\ slots[i].size = base
             /\ IsRangeSlot(slots[k])
             /\ 1 <= slots[k].size /\ slots[k].size <= base
             /\ (slots[k].size < base) <=> (args.total % base # 0)
             /\ \A i \in (k + 1)..n : IsNullSlot(slots[i])
        /\ (args.total = 10 /\ plan.totalSlots = 3) =>
             /\ n = 3
             /\ <<slots[1].start, slots[1].end>> = <<1, 4>>
             /\ <<slots[2].start, slots[2].end>> = <<5, 8>>
             /\ <<slots[3].start, slots[3].end>> = <<9, 10>>

C5_Witness ==
  /\ Done /\ ~args.allowUneven /\ args.total = 10 /\ plan.totalSlots = 3
  /\ plan.base = 4 /\ plan.slots[3].size = 2

\* C6: the returned base and remainder: with allowUneven true, base =
\* floor(total / totalSlots) and remainder = total - base * totalSlots; with
\* allowUneven false, base = ceil(total / totalSlots), computed as
\* floor((total + totalSlots - 1) / totalSlots), and remainder =
\* max(0, base * totalSlots - total); either way 0 <= remainder < totalSlots.
C6_BaseAndRemainder ==
  Done =>
    LET t == args.total
        n == plan.totalSlots
        base == plan.base
    IN  /\ n >= 1
        /\ args.allowUneven =>
             /\ base * n <= t /\ t < (base + 1) * n
             /\ plan.remainder = t - base * n
        /\ ~args.allowUneven =>
             /\ base * n >= t /\ (base - 1) * n < t
             /\ base = (t + n - 1) \div n
             /\ plan.remainder = (IF base * n - t > 0 THEN base * n - t ELSE 0)
        /\ 0 <= plan.remainder
        /\ plan.remainder < n

\* the ceiling overshoots: total is not a multiple of totalSlots
C6_Witness ==
  /\ Done /\ ~args.allowUneven
  /\ plan.base >= 2 /\ plan.remainder >= 1
  /\ plan.base * plan.totalSlots = args.total + plan.remainder

\* C7: totalSlots is days in per-day mode and days * prayersPerDay in
\* per-prayer mode, and the flat slots sequence has exactly totalSlots entries
\* with idx 1, 2, ..., totalSlots in order, null slots included.
C7_TotalSlotsAndIndex ==
  Done =>
    /\ args.mode = "per-day" => plan.totalSlots = args.days
    /\ args.mode = "per-prayer" =>
         plan.totalSlots = args.days * args.prayersPerDay
    /\ Len(plan.slots) = plan.totalSlots
    /\ \A i \in 1..Len(plan.slots) : plan.slots[i].idx = i

C7_Witness ==
  /\ Done /\ args.mode = "per-prayer" /\ args.prayersPerDay >= 2
  /\ Len(plan.slots) = args.days * args.prayersPerDay
  /\ IsNullSlot(plan.slots[Len(plan.slots)])
  /\ plan.slots[Len(plan.slots)].idx = plan.totalSlots

\* C8: for every valid input daysArr has exactly days entries numbered
\* 1..days in order, and a day for which no material is left (the earlier
\* days already hold all of total) is present with start = end = null and
\* totalThisDay = 0.
RECURSIVE SumOfDays(_, _)
SumOfDays(daysArr, n) ==
  IF n = 0 THEN 0 ELSE SumOfDays(daysArr, n - 1) + daysArr[n].totalThisDay

C8_FullyFormed ==
  Done =>
    LET daysArr == plan.daysArr
    IN  /\ Len(daysArr) = args.days
        /\ \A d \in 1..Len(daysArr) :
             /\ daysArr[d].day = d
             /\ SumOfDays(daysArr, d - 1) = args.total =>
                  /\ daysArr[d].start = Null
                  /\ daysArr[d].end = Null
                  /\ daysArr[d].totalThisDay = 0

\* total < totalSlots leaves the last day without material
C8_Witness ==
  /\ Done /\ args.total < plan.totalSlots /\ args.days >= 2
  /\ Len(plan.daysArr) = args.days
  /\ plan.daysArr[args.days].start = Null
  /\ plan.daysArr[args.days].totalThisDay = 0
  /\ plan.daysArr[1].start = 1

\* C9: in per-day mode day d contains exactly one slot, the slot with
\* idx = d, and the day's start, end and totalThisDay are that slot's start,
\* end and size.
C9_PerDayGrouping ==
  (Done /\ args.mode = "per-day") =>
    \A d \in 1..args.days :
      /\ d <= Len(plan.daysArr) /\ d <= Len(plan.slots)
      /\ plan.daysArr[d].slots = <<plan.slots[d]>>
      /\ plan.daysArr[d].slots[1].idx = d
      /\ plan.daysArr[d].start = plan.slots[d].start
      /\ plan.daysArr[d].end = plan.slots[d].end
      /\ plan.daysArr[d].totalThisDay = plan.slots[d].size

C9_Witness ==
  /\ Done /\ args.mode = "per-day" /\ args.days >= 3
  /\ args.prayersPerDay >= 2
  /\ plan.daysArr[3].slots = <<plan.slots[3]>>
  /\ plan.daysArr[3].start > 1

\* C10: in per-prayer mode the day with 0-based index d owns exactly the
\* slots at flat positions d * prayersPerDay .. d * prayersPerDay +
\* prayersPerDay - 1 (0-based), so every day has exactly prayersPerDay slots
\* and the days' slot lists concatenated in day order are the flat sequence.
RECURSIVE ConcatDaySlots(_, _)
ConcatDaySlots(daysArr, n) ==
  IF n = 0 THEN <<>> ELSE ConcatDaySlots(daysArr, n - 1) \o daysArr[n].slots

C10_PerSlotOwnership ==
  (Done /\ args.mode = "per-prayer") =>
    /\ Len(plan.daysArr) = args.days
    /\ \A d \in 0..(Len(plan.daysArr) - 1) :
         /\ Len(plan.daysArr[d + 1].slots) = args.prayersPerDay
         /\ \A k \in 1..Len(plan.daysArr[d + 1].slots) :
              /\ d * args.prayersPerDay + k <= Len(plan.slots)
              /\ plan.daysArr[d + 1].slots[k]
                   = plan.slots[d * args.prayersPerDay + k]
    /\ ConcatDaySlots(plan.daysArr, Len(plan.daysArr)) = plan.slots

C10_Witness ==
  /\ Done /\ args.mode = "per-prayer" /\ args.days >= 2
  /\ args.prayersPerDay >= 2
  /\ Len(plan.daysArr[args.days].slots) = args.prayersPerDay
  /\ plan.daysArr[2].slots[1].idx = args.prayersPerDay + 1

\* C11: in per-prayer mode a day's start is the start of its first slot with
\* a non-null start (null if none), its end is the end of its last slot with
\* a non-null end (null if none), and totalThisDay is the sum of the sizes of
\* all its slots, empty ones counting 0; total = 10, days = 2,
\* prayersPerDay = 5, allowUneven gives day 1 = (1, 5, 5), day 2 = (6, 10, 5).
C11_PerSlotAggregation ==
  (Done /\ args.mode = "per-prayer") =>
    /\ \A d \in 1..Len(plan.daysArr) :
         LET day == plan.daysArr[d]
             n == Len(day.slots)
         IN  /\ IF \A k \in 1..n : day.slots[k].start = Null
                THEN day.start = Null
                ELSE \E k \in 1..n :
                       /\ day.slots[k].start # Null
                       /\ \A j \in 1..(k - 1) : day.slots[j].start = Null
                       /\ day.start = day.slots[k].start
             /\ IF \A k \in 1..n : day.slots[k].end = Null
                THEN day.end = Null
                ELSE \E k \in 1..n :
                       /\ day.slots[k].end # Null
                       /\ \A j \in (k + 1)..n : day.slots[j].end = Null
                       /\ day.end = day.slots[k].end
             /\ day.totalThisDay = SumOfSizes(day.slots, n)
    /\ (args.total = 10 /\ args.days = 2 /\ args.prayersPerDay = 5
          /\ args.allowUneven) =>
         /\ plan.totalSlots = 10 /\ plan.base = 1 /\ plan.remainder = 0
         /\ <<plan.daysArr[1].start, plan.daysArr[1].end,
              plan.daysArr[1].totalThisDay>> = <<1, 5, 5>>
         /\ <<plan.daysArr[2].start, plan.daysArr[2].end,
              plan.daysArr[2].totalThisDay>> = <<6, 10, 5>>

C11_Witness ==
  /\ Done /\ args.mode = "per-prayer" /\ args.allowUneven
  /\ args.total = 10 /\ args.days = 2 /\ args.prayersPerDay = 5
  /\ plan.daysArr[2].start = 6 /\ plan.daysArr[2].end = 10
  /\ plan.daysArr[2].totalThisDay = 5

\* ------------------------------------------------------------ formatter
Formatted == pc = "fdone"

\* the characters of "K1 3-7", "K1 602-604 + K2 1-2" and "3-7" (with en dashes)
Text_K1_3_7 == <<"K", "1", " ", "3", EnDash, "7">>

Text_K1_602_604_K2_1_2 ==
  <<"K", "1", " ", "6", "0", "2", EnDash, "6", "0", "4", " ", "+", " ",
    "K", "2", " ", "1", EnDash, "2">>

Text_3_7 == <<"3", EnDash, "7">>

\* the cycle holding unit n is the one c with (c-1)*cycleSize < n <= c*cycleSize
\* and the position of n inside it is what is left after the c-1 full cycles
CycleHolding(n, cycleSize) ==
  CHOOSE c \in 1..n : (c - 1) * cycleSize < n /\ n <= c * cycleSize

PosInCycle(n, cycleSize) == n - (CycleHolding(n, cycleSize) - 1) * cycleSize

\* C12: for cycleSize >= 1 and start, end >= 1 in the same cycle the result is
\* "K{c} {s}-{e}" with c the 1-based cycle of start and s, e the 1-based
\* positions of start and end inside it, both in 1..cycleSize;
\* formatRange(3, 7, 604) = "K1 3-7".
C12_FormatSameCycle ==
  (Formatted /\ fmt.cycleSize >= 1 /\ fmt.start >= 1 /\ fmt.end >= 1) =>
    LET c == CycleHolding(fmt.start, fmt.cycleSize)
        s == PosInCycle(fmt.start, fmt.cycleSize)
        e == PosInCycle(fmt.end, fmt.cycleSize)
    IN  (c = CycleHolding(fmt.end, fmt.cycleSize)) =>
          /\ s \in 1..fmt.cycleSize /\ e \in 1..fmt.cycleSize
          /\ fmt.out = <<"K">> \o NumberToString(c) \o <<" ">>
                         \o NumberToString(s) \o <<EnDash>> \o NumberToString(e)
          /\ (fmt.start = 3 /\ fmt.end = 7 /\ fmt.cycleSize = 604)
               => fmt.out = Text_K1_3_7

C12_Witness ==
  /\ Formatted /\ fmt.start = 3 /\ fmt.end = 7 /\ fmt.cycleSize = 604
  /\ fmt.out = Text_K1_3_7

\* C13: for cycleSize >= 1 with start and end in different cycles the result
\* is "K{cycleOf(start)} {posOf(start)}-{cycleSize} + K{cycleOf(end)}
\* 1-{posOf(end)}"; formatRange(602, 606, 604) = "K1 602-604 + K2 1-2".
C13_FormatCrossCycle ==
  (Formatted /\ fmt.cycleSize >= 1 /\ fmt.start >= 1 /\ fmt.end >= 1) =>
    LET c1 == CycleHolding(fmt.start, fmt.cycleSize)
        c2 == CycleHolding(fmt.end, fmt.cycleSize)
        s == PosInCycle(fmt.start, fmt.cycleSize)
        e == PosInCycle(fmt.end, fmt.cycleSize)
    IN  (c1 # c2) =>
          /\ fmt.out = <<"K">> \o NumberToString(c1) \o <<" ">>
                         \o NumberToString(s) \o <<EnDash>>
                         \o NumberToString(fmt.cycleSize)
                         \o <<" ", "+", " ", "K">> \o NumberToString(c2)
                         \o <<" ", "1", EnDash>> \o NumberToString(e)
          /\ (fmt.start = 602 /\ fmt.end = 606 /\ fmt.cycleSize = 604)
               => fmt.out = Text_K1_602_604_K2_1_2

C13_Witness ==
  /\ Formatted /\ fmt.start = 602 /\ fmt.end = 606 /\ fmt.cycleSize = 604
  /\ fmt.out = Text_K1_602_604_K2_1_2

\* C14: for every cycleSize <= 0 the result is the plain "{start}-{end}" with
\* the absolute numbers and no K prefix; formatRange(3, 7, 0) = "3-7".
C14_FormatDegenerate ==
  (Formatted /\ fmt.cycleSize <= 0) =>
    /\ fmt.out = NumberToString(fmt.start) \o <<EnDash>> \o NumberToString(fmt.end)
    /\ fmt.out[1] # "K"
    /\ (fmt.start = 3 /\ fmt.end = 7 /\ fmt.cycleSize = 0) => fmt.out = Text_3_7

C14_Witness ==
  /\ Formatted /\ fmt.cycleSize < 0 /\ fmt.start = 11 /\ fmt.end = 12
  /\ fmt.out = <<"1", "1", EnDash, "1", "2">>

\* the decimal numbers written in a text, in order of appearance
IsDigit(ch) == \E d \in 1..10 : DigitChars[d] = ch

DigitValue(ch) == (CHOOSE d \in 1..10 : DigitChars[d] = ch) - 1

RECURSIVE ScanNumbers(_, _, _, _)
ScanNumbers(text, i, cur, acc) ==
  IF i > Len(text) THEN (IF cur = Null THEN acc ELSE Append(acc, cur))
  ELSE IF IsDigit(text[i])
  THEN ScanNumbers(text, i + 1,
         (IF cur = Null THEN 0 ELSE cur * 10) + DigitValue(text[i]), acc)
  ELSE ScanNumbers(text, i + 1, Null,
         IF cur = Null THEN acc ELSE Append(acc, cur))

NumbersIn(text) == ScanNumbers(text, 1, Null, <<>>)

\* the units a rendered text denotes: "K{c} {s}-{e}" denotes e - s + 1,
\* "K{c1} {s}-{hi} + K{c2} {lo}-{e}" denotes (hi - s + 1) + (e - lo + 1)
RenderedUnits(text) ==
  LET ns == NumbersIn(text)
  IN  IF Len(ns) = 3 THEN ns[3] - ns[2] + 1
      ELSE (ns[3] - ns[2] + 1) + (ns[6] - ns[5] + 1)

\* C18: for every cycleSize >= 1 and 1 <= start <= end the rendered pieces
\* denote exactly end - start + 1 units, also when the range spans more than
\* one cycle boundary.
C18_RenderedUnitCount ==
  (Formatted /\ fmt.cycleSize >= 1 /\ 1 <= fmt.start /\ fmt.start <= fmt.end) =>
    RenderedUnits(fmt.out) = fmt.end - fmt.start + 1

\* ------------------------------------------------------------ App
InApp == pc = "app"

\* C16: the total handed to buildDailyPlan equals perCycleTotal * khatamTimes
\* for every input the App accepts, and so equals the total shown in the
\* summary and khatamTimes full cycles of the cycle size given to the
\* formatter.
C16_TotalIsProduct ==
  InApp =>
    /\ PlanArgs(app).total = BaseTotal(app) * KhatamTimes(app)
    /\ PlanArgs(app).total = Total(app)

\* C17: in every plan the App builds, every slot range and every day range
\* handed to the formatter has start and end in the same cycle or in two
\* adjacent cycles of the cycle size baseTotal.
C17_SingleCrossing ==
  InApp =>
    LET p == AppPlan(app)
        cycleSize == BaseTotal(app)
    IN  /\ \A d \in 1..Len(p.daysArr) :
             (p.daysArr[d].start # Null /\ p.daysArr[d].end # Null) =>
               CycleOf(p.daysArr[d].end, cycleSize)
                 - CycleOf(p.daysArr[d].start, cycleSize) <= 1
        /\ app.mode = "per-prayer" =>
             \A i \in 1..Len(p.slots) :
               (p.slots[i].start # Null /\ p.slots[i].end # Null) =>
                 CycleOf(p.slots[i].end, cycleSize)
                   - CycleOf(p.slots[i].start, cycleSize) <= 1

\* ------------------------------------------------------------ whole plan
\* C19: in both modes and under both policies the totalThisDay of all days sum
\* to total; a day's start is null iff its end is null iff its totalThisDay is
\* 0; a day with bounds has totalThisDay = end - start + 1; the first day
\* starts at 1 and each following day with bounds starts at the previous
\* day's end + 1.
C19_DayConservation ==
  Done =>
    LET daysArr == plan.daysArr
        n == Len(daysArr)
    IN  /\ n >= 1
        /\ SumOfDays(daysArr, n) = args.total
        /\ \A d \in 1..n :
             /\ (daysArr[d].start = Null) <=> (daysArr[d].end = Null)
             /\ (daysArr[d].start = Null) <=> (daysArr[d].totalThisDay = 0)
             /\ daysArr[d].start # Null =>
                  daysArr[d].totalThisDay = daysArr[d].end - daysArr[d].start + 1
        /\ daysArr[1].start = 1
        /\ \A d \in 2..n :
             daysArr[d].start # Null =>
               /\ daysArr[d - 1].end # Null
               /\ daysArr[d].start = daysArr[d - 1].end + 1

\* a short final slot under the ceiling policy inside the last day with bounds,
\* followed by a day without material
C19_Witness ==
  /\ Done /\ ~args.allowUneven /\ args.mode = "per-prayer" /\ args.days >= 3
  /\ args.prayersPerDay >= 2
  /\ plan.daysArr[args.days].start = Null
  /\ plan.daysArr[2].start = plan.daysArr[1].end + 1
  /\ plan.daysArr[2].end = args.total
  /\ \E k \in 1..Len(plan.daysArr[2].slots) :
       /\ plan.daysArr[2].slots[k].start # Null
       /\ plan.daysArr[2].slots[k].size < plan.base

\* C20: with allowUneven false too the slot sizes sum to total and the last
\* slot with bounds ends exactly at total, so under either policy the slots
\* with bounds partition the whole range 1..total.
C20_FullCoverage ==
  Done =>
    LET slots == plan.slots
        n == Len(slots)
        ranged == {i \in 1..n : IsRangeSlot(slots[i])}
    IN  /\ SumOfSizes(slots, n) = args.total
        /\ ranged # {}
        /\ \A i \in ranged : (\A j \in ranged : j <= i) => slots[i].end = args.total
        /\ UnitsBefore(slots, n) = 1..args.total
        /\ \A i, j \in ranged :
             i # j => (slots[i].start .. slots[i].end)
                        \cap (slots[j].start .. slots[j].end) = {}

C20_Witness ==
  /\ Done /\ ~args.allowUneven /\ plan.remainder >= 1
  /\ \E i \in 2..Len(plan.slots) :
       /\ IsRangeSlot(plan.slots[i])
       /\ plan.slots[i].end = args.total
       /\ plan.slots[i].size < plan.base
       /\ i < Len(plan.slots)
       /\ IsNullSlot(plan.slots[i + 1])

\* C21: in per-prayer mode no day contains a null slot before a slot with
\* bounds, so whenever a day's start is non-null it is the start of the
\* day's first slot, and a day has null bounds exactly when its first slot
\* is null.
C21_NoLeadingEmptySlots ==
  (Done /\ args.mode = "per-prayer") =>
    \A d \in 1..Len(plan.daysArr) :
      LET day == plan.daysArr[d]
          n == Len(day.slots)
      IN  /\ n >= 1
          /\ \A j \in 1..n : \A k \in j..n :
               IsNullSlot(day.slots[j]) => IsNullSlot(day.slots[k])
          /\ day.start # Null => day.start = day.slots[1].start
          /\ (day.start = Null /\ day.end = Null) <=> IsNullSlot(day.slots[1])
          /\ (day.start = Null \/ day.end = Null) => IsNullSlot(day.slots[1])

\* a day whose material runs out after its first slots: bounds from slot 1,
\* null slots behind, and a later day with null bounds
C21_Witness ==
  /\ Done /\ args.mode = "per-prayer" /\ args.prayersPerDay >= 3
  /\ args.days >= 3
  /\ \E d \in 1..(Len(plan.daysArr) - 1) :
       LET day == plan.daysArr[d]
       IN  /\ day.start = day.slots[1].start /\ day.start > 1
           /\ IsRangeSlot(day.slots[2])
           /\ IsNullSlot(day.slots[Len(day.slots)])
           /\ plan.daysArr[d + 1].start = Null
           /\ IsNullSlot(plan.daysArr[d + 1].slots[1])

\* the plan built from the same arguments under the other remainder policy
OtherPolicyPlan == buildDailyPlan([args EXCEPT !.allowUneven = ~args.allowUneven])

\* C22: for every configuration with total <= totalSlots or with total
\* divisible by totalSlots, buildDailyPlan returns the same slots sequence
\* and the same daysArr for allowUneven true and false.
C22_PoliciesCoincide ==
  (Done /\ (args.total <= plan.totalSlots \/ args.total % plan.totalSlots = 0)) =>
    /\ OtherPolicyPlan.slots = plan.slots
    /\ OtherPolicyPlan.daysArr = plan.daysArr

\* fewer units than slots: base 0 with a remainder against base 1, same plan
C22_Witness ==
  /\ Done /\ args.allowUneven /\ args.total < plan.totalSlots
  /\ args.total >= 2
  /\ plan.base = 0 /\ plan.remainder = args.total
  /\ OtherPolicyPlan.base = 1
  /\ OtherPolicyPlan.slots = plan.slots
  /\ OtherPolicyPlan.daysArr = plan.daysArr

\* ------------------------------------------------------------ checklist
\* the (day, position) pairs of the slots the current plan renders
PlanSlotPairs(p) ==
  {pr \in (1..Len(p.daysArr)) \X (0..(Len(p.slots) - 1)) :
     pr[2] < Len(p.daysArr[pr[1]].slots)}

\* C23: in per-prayer mode the progress total is the number of slots of the
\* current plan, empty ones included, and the done count the number of those
\* slots whose key "day:idx" is ticked; in per-day mode the total is the
\* number of days and the done count the number of those days ticked; ticks
\* kept for days or slots outside the current plan are not counted, so
\* 0 <= doneCount <= totalCount and the percentage is within 0..100.
C23_ProgressCounting ==
  InApp =>
    LET p == AppPlan(app)
        totalCount == TotalCount(app, p)
        doneCount == DoneCount(app, p, doneDays, doneSlots)
        pct == ProgressPct(app, p, doneDays, doneSlots)
    IN  /\ app.mode = "per-prayer" =>
             /\ totalCount = Len(p.slots)
             /\ doneCount =
                  Cardinality({pr \in PlanSlotPairs(p) :
                     Ticked(doneSlots, slotKey(p.daysArr[pr[1]].day, pr[2]))})
        /\ app.mode = "per-day" =>
             /\ totalCount = Days(app)
             /\ doneCount = Cardinality({d \in 1..Days(app) : Ticked(doneDays, d)})
        /\ 0 <= doneCount /\ doneCount <= totalCount
        /\ 0 <= pct /\ pct <= 100
        /\ 200 * doneCount - totalCount <= 2 * totalCount * pct
        /\ 2 * totalCount * pct <= 200 * doneCount + totalCount

\* a tick kept for a slot of a day the plan no longer has, next to one
\* counted tick out of two slots
C23_Witness ==
  /\ InApp /\ app.mode = "per-prayer"
  /\ Days(app) = 1 /\ PrayersPerDay(app) = 2
  /\ Ticked(doneSlots, slotKey(2, 0))
  /\ Ticked(doneSlots, slotKey(1, 1)) /\ ~Ticked(doneSlots, slotKey(1, 0))
  /\ DoneCount(app, AppPlan(app), doneDays, doneSlots) = 1
  /\ TotalCount(app, AppPlan(app)) = 2
  /\ ProgressPct(app, AppPlan(app), doneDays, doneSlots) = 50

\* the keys "day:0" .. "day:n-1"
DayKeys(day, n) == {slotKey(day, idx) : idx \in 0..(n - 1)}

\* C24: in per-prayer mode the day checkbox is checked iff every slot of that
\* day in the current plan is ticked, whatever doneDays holds; a click sets
\* the keys "day:0" .. "day:n-1" (n the number of slots of that day in the
\* plan) to the negation of the checkbox's value, leaves every other key
\* unchanged, and afterwards the checkbox shows the negated value.
C24_DayCheckbox ==
  [][\A k \in RenderedDays :
       ClickDayAllSlotsOf(k) =>
         LET d == AppPlan(app).daysArr[k]
             n == Len(d.slots)
             was == \A key \in DayKeys(d.day, n) : Ticked(doneSlots, key)
         IN  /\ n >= 1
             /\ DayChecked(app, d, doneDays, doneSlots) = was
             /\ DayChecked(app, d, EmptyMap, doneSlots) = was
             /\ \A key \in DayKeys(d.day, n) :
                  key \in DOMAIN doneSlots' /\ doneSlots'[key] = ~was
             /\ DOMAIN doneSlots' = DOMAIN doneSlots \cup DayKeys(d.day, n)
             /\ \A key \in DOMAIN doneSlots \ DayKeys(d.day, n) :
                  doneSlots'[key] = doneSlots[key]
             /\ doneDays' = doneDays
             /\ DayChecked(app', AppPlan(app').daysArr[k], doneDays', doneSlots')
                  = ~was]_vars

\* day 1 checked through its two slots while day 2 has one slot ticked and
\* doneDays says nothing about day 1
C24_Witness ==
  /\ InApp /\ app.mode = "per-prayer"
  /\ Days(app) = 2 /\ PrayersPerDay(app) = 2
  /\ DayChecked(app, AppPlan(app).daysArr[1], doneDays, doneSlots)
  /\ ~DayChecked(app, AppPlan(app).daysArr[2], doneDays, doneSlots)
  /\ Ticked(doneSlots, slotKey(2, 1)) /\ slotKey(2, 0) \notin DOMAIN doneSlots
  /\ ~Ticked(doneDays, 1)

\* C25: after any sequence of checklist toggles and configuration changes
\* the record saved under the storage key holds the current doneDays,
\* doneSlots and parsed configuration, and a page reload restores exactly
\* those values.
C25_Persistence ==
  InApp =>
    LET r == FromStored(stored)
    IN  /\ stored.doneDays = doneDays
        /\ stored.doneSlots = doneSlots
        /\ stored.unit = app.unit /\ stored.mode = app.mode
        /\ stored.allowUneven = app.allowUneven
        /\ stored.totalPages = TotalPages(app)
        /\ stored.totalAyat = TotalAyat(app)
        /\ stored.days = Days(app)
        /\ stored.prayersPerDay = PrayersPerDay(app)
        /\ stored.khatamTimes = KhatamTimes(app)
        /\ r.unit = app.unit /\ r.mode = app.mode
        /\ r.allowUneven = app.allowUneven
        /\ TotalPages(r) = TotalPages(app) /\ TotalAyat(r) = TotalAyat(app)
        /\ Days(r) = Days(app) /\ PrayersPerDay(r) = PrayersPerDay(app)
        /\ KhatamTimes(r) = KhatamTimes(app)
        /\ AppPlan(r) = AppPlan(app)

\* field texts that differ from the parsed values, ticks and an unticked key
C25_Witness ==
  /\ InApp /\ app.daysRaw = RawNum(0) /\ app.prayersPerDayRaw = RawNum(0)
  /\ stored.days = 1 /\ stored.prayersPerDay = 1
  /\ app.mode = "per-day" /\ stored.mode = "per-day"
  /\ slotKey(2, 1) \in DOMAIN stored.doneSlots
  /\ ~stored.doneSlots[slotKey(2, 1)]
  /\ Ticked(stored.doneSlots, slotKey(1, 0))
  /\ Ticked(stored.doneDays, 2)
  /\ FromStored(stored).daysRaw = RawNum(1)

\* every entry of m other than k is in m2 with the same value, and m2 holds
\* nothing else but k
SameExceptKey(m, m2, k) ==
  /\ DOMAIN m2 = DOMAIN m \cup {k}
  /\ \A x \in DOMAIN m \ {k} : m2[x] = m[x]

\* C26: toggleDay(d) negates doneDays[d] and leaves every other doneDays
\* entry and all of doneSlots unchanged; toggleSlot(d, i) negates
\* doneSlots["d:i"], i being the 0-based position within the day, and leaves
\* every other doneSlots entry and all of doneDays unchanged; the same toggle
\* applied twice restores the checked state, and no toggle changes the
\* configuration or the plan.
C26_SingleToggles ==
  [][/\ \A k \in RenderedDays :
          ToggleDayOf(k) =>
            LET day == AppPlan(app).daysArr[k].day
            IN  /\ day = k
                /\ Ticked(doneDays', day) = ~Ticked(doneDays, day)
                /\ SameExceptKey(doneDays, doneDays', day)
                /\ doneSlots' = doneSlots
                /\ Ticked(toggleDay(doneDays', day), day) = Ticked(doneDays, day)
                /\ app' = app /\ PlanArgs(app') = PlanArgs(app)
     /\ \A k \in RenderedDays :
          \A idx \in 0..(Len(AppPlan(app).daysArr[k].slots) - 1) :
            ToggleSlotOf(k, idx) =>
              LET key == NumberToString(k) \o <<":">> \o NumberToString(idx)
                  global == AppPlan(app).daysArr[k].slots[idx + 1].idx
              IN  /\ global = (k - 1) * PrayersPerDay(app) + idx + 1
                  /\ Ticked(doneSlots', key) = ~Ticked(doneSlots, key)
                  /\ SameExceptKey(doneSlots, doneSlots', key)
                  /\ doneDays' = doneDays
                  /\ Ticked(toggleSlot(doneSlots', k, idx), key)
                       = Ticked(doneSlots, key)
                  /\ app' = app /\ PlanArgs(app') = PlanArgs(app)]_vars

\* a slot of day 2 ticked under its position, not its global idx, next to a
\* key toggled twice and a day toggled twice
C26_Witness ==
  /\ InApp
  /\ Ticked(doneSlots, slotKey(2, 1))
  /\ slotKey(2, 4) \notin DOMAIN doneSlots
  /\ slotKey(1, 0) \in DOMAIN doneSlots /\ ~doneSlots[slotKey(1, 0)]
  /\ 1 \in DOMAIN doneDays /\ ~doneDays[1]
  /\ Ticked(doneDays, 2)

\* the configuration part of a persisted record
ConfigOf(st) ==
  <<st.unit, st.totalPages, st.totalAyat, st.days, st.mode, st.prayersPerDay,
    st.allowUneven, st.khatamTimes>>

C30_ThemeResolution ==
  InApp =>
    /\ theme.rootDark <=>
         (theme.mode = "dark" \/ (theme.mode = "system" /\ theme.osDark))
    /\ theme.listening <=> theme.mode = "system"
    /\ theme.mode \in {"light", "dark"} => theme.rootDark = (theme.mode = "dark")
    /\ theme.saved = theme.mode

\* light mode chosen, then the OS turned dark: the class stays off
C30_Witness ==
  /\ InApp /\ theme.mode = "light" /\ theme.osDark
  /\ ~theme.rootDark /\ ~theme.listening /\ theme.saved = "light"

\* ------------------------------------------------------------ reader
InReader == pc = "reader"

\* C28: a content load superseded by a change of mode, ref, translation
\* switch or edition never afterwards changes the displayed ayahs, the error
\* message or the loading flag; so while the latest load is in flight
\* loading stays true, and after the latest load succeeds its ayahs are shown
\* with an empty error message.
C28_SupersededLoadsSilent ==
  [][/\ AbortSettles =>
          /\ reader'.ayahs = reader.ayahs
          /\ reader'.err = reader.err
          /\ reader'.loading = reader.loading
     /\ reader'.latest # <<>> => reader'.loading
     /\ LoadSucceeds =>
          /\ reader'.ayahs = reader.latest
          /\ reader'.err = ""]_vars

\* C29: for any sequence of mode switches, Prev/Next clicks, typed values
\* (non-finite and fractional ones included) and continue-last-read, every
\* content request is issued with a reference in 1..maxRef(mode), and after
\* the load effect has run the stored ref is that clamped value.
C29_RefInRange ==
  InReader =>
    /\ reader.ref \in 1..maxRef(reader.mode)
    /\ \A k \in 1..Len(reader.latest) :
         /\ reader.latest[k].mode = reader.mode
         /\ reader.latest[k].ref = reader.ref
         /\ reader.latest[k].ref \in 1..maxRef(reader.latest[k].mode)
    /\ \A k \in 1..Len(reader.aborted) :
         /\ reader.aborted[k].mode \in ReadModes
         /\ reader.aborted[k].ref \in 1..maxRef(reader.aborted[k].mode)
    /\ reader.mode = "surah" => reader.ref <= 114
    /\ reader.mode = "juz" => reader.ref <= 30
    /\ reader.mode = "page" => reader.ref <= 604

\* page 604 turned into juz 30 by a mode switch, the request issued for 30
C29_Witness ==
  /\ InReader /\ reader.mode = "juz" /\ reader.ref = 30
  /\ reader.lastRead = <<[mode |-> "page", ref |-> 604]>>
  /\ reader.latest = <<Request("juz", 30, FALSE, "")>>
  /\ reader.aborted = <<Request("juz", 30, FALSE, "")>>
  /\ reader.loading

====
